---- MODULE Spec2Model ----
(***************************************************************************)
(* Career-Cortex: the scraping / extraction / ingestion pipeline.          *)
(*                                                                         *)
(*   Spec          the three source adapters (job_agent.py,                *)
(*                 wellfound_scraper.py, yc_scraper.py) and one extraction *)
(*                 run (extractor.py) interleaved on job_openings.         *)
(*   SpecTwoRuns   two adapters and two extraction runs interleaved.       *)
(*   SpecRescrape  two adapters and one extraction run interleaved.        *)
(*   SpecFallback  extract_skills_fallback (resume_parser.py) on its own.  *)
(*   SpecResume    parse_resume (resume_parser.py) on one uploaded file.   *)
(*   SpecUpdate    one UPDATE of the extraction loop, for every response.  *)
(*   SpecClean     the text cleaning of each adapter on its own.           *)
(*   SpecLoader    the scroll loops of scrape_yc and scrape_wellfound;     *)
(*   SpecLoaderRuns  the same with the script's steps being taken.         *)
(*   SpecDiscovery the link discovery of each adapter on its own.          *)
(***************************************************************************)
EXTENDS Integers, Sequences, FiniteSets, TLC

(***************************************************************************)
(* Bounds of the model.                                                    *)
(***************************************************************************)
\* links one adapter run discovers at most
MaxLinks == 1
\* storage failures (other than duplicate key) injected over one behaviour
MaxFaults == 1

(***************************************************************************)
(* Program constants.                                                      *)
(***************************************************************************)
\* MySQL errno of a duplicate-key violation, as tested by every writer
ER_DUP_ENTRY == 1062
\* any other MySQL errno (a hard storage failure); 1205 is a lock wait timeout
ER_OTHER == 1205

Scrapers == {"generic", "wellfound", "yc"}
Extractors == {"x1", "x2"}
Urls == {"u1", "u2"}
Titles == {"Engineer"}
Texts == {"d1", "d2"}

VARIABLES
    store,      \* committed rows of job_openings; the row's id is its index
    spc,        \* scraper -> "start"|"scrape"|"closed"|"aborted"
    links,      \* scraper -> job_links of the run, a sequence of [title, url]
    idx,        \* scraper -> index of the link being processed
    inTxn,      \* connection -> a transaction is open on it
    lastErrno,  \* scraper -> errno of the run's last insert (0: saved); -1: none yet
    faults,     \* storage failures injected so far
    xpc,        \* extraction run -> "start"|"extract"|"done"|"exited"|"crashed"
    selected,   \* extraction run -> jobs_to_process, a sequence of [id, raw_description]
    xidx,       \* extraction run -> index of the job being processed
    rpc,        \* resume request: "idle" | "call" | "done"
    pdf,        \* the uploaded document: [readable, pages]
    use_ollama, \* parse_resume's use_ollama argument
    ollama,     \* what the inference backend does when called: [kind, skills]
    result,     \* what parse_resume returned: [success, skills, message, invoked]
    fbpc,       \* fallback call: "idle" | "call" | "done"
    fbText,     \* the text given to extract_skills_fallback
    fbOut,      \* the list it returned
    upc,        \* one UPDATE of the extraction loop: "idle" | "call" | "done"
    uresp,      \* the parsed response (structured_data) it is given
    urow,       \* the posting's row, before and after the UPDATE
    cpc,        \* text cleaning: "idle" | "call" | "done"
    cw,         \* the adapter whose cleaning is applied
    craw,       \* the raw text of the detail page
    cout,       \* the text the adapter passes on
    cpassed,    \* the adapter went on to the INSERT with that text
    lpc,        \* incremental loader: "idle" | "start" | "loop" | "done"
    lw,         \* the adapter whose scroll loop runs
    scroll_attempt, \* the loop variable of "for ... in range(MAX_SCROLLS)"
    last_height,    \* last_height of the loop
    scrolls,    \* window.scrollTo calls made so far
    steady,     \* every height measured so far equals the first one
    lend,       \* how the loop ended: "none" | "converged" | "confirmed" | "budget"
    dpc,        \* link discovery: "idle" | "call" | "done"
    dw,         \* the adapter whose link discovery runs
    anchors,    \* the <a> elements of the listing page, in document order
    job_links   \* the (title, url) pairs discovery returned

vars == <<store, spc, links, idx, inTxn, lastErrno, faults, xpc, selected, xidx,
          rpc, pdf, use_ollama, ollama, result, fbpc, fbText, fbOut,
          upc, uresp, urow, cpc, cw, craw, cout, cpassed,
          lpc, lw, scroll_attempt, last_height, scrolls, steady, lend,
          dpc, dw, anchors, job_links>>

scraperVars == <<spc, links, idx, lastErrno>>
extractorVars == <<xpc, selected, xidx>>
pipelineVars == <<store, inTxn, faults, scraperVars, extractorVars>>
resumeVars == <<rpc, pdf, use_ollama, ollama, result>>
fallbackVars == <<fbpc, fbText, fbOut>>
updateVars == <<upc, uresp, urow>>
cleanVars == <<cpc, cw, craw, cout, cpassed>>
loaderVars == <<lpc, lw, scroll_attempt, last_height, scrolls, steady, lend>>
discoveryVars == <<dpc, dw, anchors, job_links>>
\* the functions and loops checked on their own
unitVars == <<updateVars, cleanVars, loaderVars, discoveryVars>>
\* what no step of the adapters and extraction runs touches
offPipeline == <<resumeVars, fallbackVars, unitVars>>

(***************************************************************************)
(* Rows.  A nullable column holds <<>> (NULL) or <<v>>.                    *)
(***************************************************************************)
FieldKeys == {"company", "location_scraped", "is_remote", "job_type",
              "seniority", "required_skills"}

NullFields == [k \in FieldKeys |-> <<>>]

\* INSERT of job_agent.py: is_extracted given as FALSE, no search_query
GenericRow(title, url, text) ==
    [job_title |-> title, raw_description |-> text, job_url |-> url,
     search_query |-> <<>>, is_extracted |-> FALSE, ext |-> NullFields]

\* INSERT of the Wellfound and YC adapters: search_query given, is_extracted
\* left to the column default (pending)
TaggedRow(tag, title, url, text) ==
    [job_title |-> title, raw_description |-> text, job_url |-> url,
     search_query |-> <<tag>>, is_extracted |-> FALSE, ext |-> NullFields]

NewRow(w, title, url, text) ==
    CASE w = "generic"   -> GenericRow(title, url, text)
      [] w = "wellfound" -> TaggedRow("Wellfound Scraper", title, url, text)
      [] w = "yc"        -> TaggedRow("YC Scraper", title, url, text)

(***************************************************************************)
(* The store's unique index on job_url.                                    *)
(***************************************************************************)
NoUniqueIndex(tbl, url) == FALSE

UniqueViolation(tbl, url) == \E i \in DOMAIN tbl : tbl[i].job_url = url

\* errno of executing the plain INSERT statement on the rows the connection sees
InsertErrno(tbl, row) ==
    IF UniqueViolation(tbl, row.job_url) THEN ER_DUP_ENTRY ELSE 0

(***************************************************************************)
(* Link discovery, as far as the store is concerned: job_links is a        *)
(* sequence of (title, url) pairs with pairwise different urls.            *)
(***************************************************************************)
Link == [title : Titles, url : Urls]

DistinctUrls(ls) == \A i, j \in DOMAIN ls : i # j => ls[i].url # ls[j].url

LinkLists == {ls \in UNION {[1..k -> Link] : k \in 0..MaxLinks} : DistinctUrls(ls)}

(***************************************************************************)
(* How each writer handles the errno of its INSERT.                        *)
(***************************************************************************)
\* RemoteJobScraper._save_job_to_db: True after the commit, False on the
\* duplicate-key error and False on any other storage error
SaveReturn(errno) == IF errno = 0 THEN "True" ELSE "False"

\* what the adapters without a return value report: nothing
NoReturn(errno) == "none"

\* the caller-visible report of an insert, per adapter
InsertReport(w, errno) ==
    IF w = "generic" THEN SaveReturn(errno) ELSE NoReturn(errno)

\* only job_agent.py rolls back, and only on an errno other than 1062; the
\* Wellfound and YC adapters print the error and go on
RollsBack(w, errno) == w = "generic" /\ errno # 0 /\ errno # ER_DUP_ENTRY

ErrClass(errno) ==
    IF errno = 0 THEN "ok" ELSE IF errno = ER_DUP_ENTRY THEN "dup" ELSE "hard"

\* an INSERT ... ON DUPLICATE KEY UPDATE: a duplicate overwrites the row
Upserted(tbl, row, errno) ==
    IF errno = 0 THEN Append(tbl, row)
    ELSE IF errno = ER_DUP_ENTRY
         THEN [i \in DOMAIN tbl |-> IF tbl[i].job_url = row.job_url THEN row ELSE tbl[i]]
         ELSE tbl

\* the table after the plain INSERT: one more row, or on an error the table
\* as it was
Inserted(tbl, row, errno) == IF errno = 0 THEN Append(tbl, row) ELSE tbl

\* the description an adapter makes of a page: the adapters clean the page
\* text differently, so a page scraped by two of them gives two texts
TextsOf(w) == IF w = "generic" THEN {"d1"} ELSE {"d2"}

\* the errnos the server can answer an INSERT of `row` with
InsertErrnos(row) ==
    {InsertErrno(store, row)} \cup (IF faults < MaxFaults THEN {ER_OTHER} ELSE {})

(***************************************************************************)
(* Source adapters.                                                        *)
(***************************************************************************)
Discover(w) ==
    /\ spc[w] = "start"
    /\ \E ls \in LinkLists : links' = [links EXCEPT ![w] = ls]
    /\ spc' = [spc EXCEPT ![w] = "scrape"]
    /\ UNCHANGED <<store, idx, inTxn, lastErrno, faults>>
    /\ UNCHANGED <<extractorVars, offPipeline>>

\* driver.get / page parsing raises: the generic adapter has no per-link
\* handler, so run()'s outer handler ends the run; the other two log and go on
FetchFails(w) ==
    /\ spc[w] = "scrape"
    /\ idx[w] <= Len(links[w])
    /\ IF w = "generic"
       THEN /\ spc' = [spc EXCEPT ![w] = "aborted"]
            /\ inTxn' = [inTxn EXCEPT ![w] = FALSE]
            /\ lastErrno' = [lastErrno EXCEPT ![w] = -1]
            /\ links' = [links EXCEPT ![w] = <<>>]
            /\ idx' = [idx EXCEPT ![w] = 1]
       ELSE /\ idx' = [idx EXCEPT ![w] = @ + 1]
            /\ UNCHANGED <<spc, inTxn, lastErrno, links>>
    /\ UNCHANGED <<store, faults>>
    /\ UNCHANGED <<extractorVars, offPipeline>>

\* no <body>, an empty description, or (Wellfound, YC) a too short one
FetchRejected(w) ==
    /\ spc[w] = "scrape"
    /\ idx[w] <= Len(links[w])
    /\ idx' = [idx EXCEPT ![w] = @ + 1]
    /\ UNCHANGED <<store, spc, links, inTxn, lastErrno, faults>>
    /\ UNCHANGED <<extractorVars, offPipeline>>

\* the page gave a description: cursor.execute(INSERT ...), then commit() or
\* the handling of the error.  The inserted row is locked until the commit
\* that follows at once, so the two take effect as one step.
InsertPosting(w) ==
    /\ spc[w] = "scrape"
    /\ idx[w] <= Len(links[w])
    /\ \E text \in TextsOf(w) :
         LET l == links[w][idx[w]]
             row == NewRow(w, l.title, l.url, text)
         IN  \E errno \in InsertErrnos(row) :
               /\ store' = Inserted(store, row, errno)
               /\ inTxn' = [inTxn EXCEPT ![w] = errno # 0 /\ ~RollsBack(w, errno)]
               /\ lastErrno' = [lastErrno EXCEPT ![w] = errno]
               /\ faults' = IF errno \in {0, ER_DUP_ENTRY} THEN faults ELSE faults + 1
    /\ idx' = [idx EXCEPT ![w] = @ + 1]
    /\ UNCHANGED <<spc, links>>
    /\ UNCHANGED <<extractorVars, offPipeline>>

\* the loop is over: the connection is closed
CloseScraper(w) ==
    /\ spc[w] = "scrape"
    /\ idx[w] > Len(links[w])
    /\ spc' = [spc EXCEPT ![w] = "closed"]
    /\ inTxn' = [inTxn EXCEPT ![w] = FALSE]
    /\ lastErrno' = [lastErrno EXCEPT ![w] = -1]
    /\ links' = [links EXCEPT ![w] = <<>>]
    /\ idx' = [idx EXCEPT ![w] = 1]
    /\ UNCHANGED <<store, faults>>
    /\ UNCHANGED <<extractorVars, offPipeline>>

(***************************************************************************)
(* Structured extraction of job postings (extractor.py).                   *)
(* A parsed response is a dict; here a record over FieldKeys whose value   *)
(* is <<>> when the key is missing and <<v>> when it is present.           *)
(***************************************************************************)
FullResponse ==
    [company |-> <<"TechCorp">>, location_scraped |-> <<"Remote">>,
     is_remote |-> <<TRUE>>, job_type |-> <<"Contract">>,
     seniority |-> <<"Senior">>, required_skills |-> << <<"AWS", "Docker">> >>]

\* {}
EmptyResponse == NullFields

Responses == {FullResponse, EmptyResponse}

\* what the inference backend does on one call
Backends == {"unreachable", "badjson", "ok"}

\* extract_data: the parsed dict, or None (<<>>) when ollama.chat or
\* json.loads raises
extract_data(backend, d) == IF backend = "ok" THEN <<d>> ELSE <<>>

\* a lookup that answers the default whether or not the key is present
GetDefault(d, key, default) == default

\* dict.get(key, default)
Get(d, key, default) == IF d[key] = <<>> THEN default ELSE d[key][1]

\* json.dumps of a list of strings: an encoded string, told apart from the list
JsonDumps(list) == <<"json", list>>

\* the parameters of the UPDATE (vals), without the id
UpdateVals(d) ==
    [company          |-> <<Get(d, "company", "Not specified")>>,
     location_scraped |-> <<Get(d, "location_scraped", "Not specified")>>,
     is_remote        |-> <<IF Get(d, "is_remote", FALSE) THEN 1 ELSE 0>>,
     job_type         |-> <<Get(d, "job_type", "Full-time")>>,
     seniority        |-> <<Get(d, "seniority", "Not specified")>>,
     required_skills  |-> <<JsonDumps(Get(d, "required_skills", <<>>))>>]

\* the UPDATE writing the flag without the six fields
UpdateRowFlagOnly(row, vals) == [row EXCEPT !.is_extracted = TRUE]

\* the UPDATE setting the flag only when skills were found
UpdateRowFlagFromSkills(row, vals) ==
    [row EXCEPT !.ext = vals,
                !.is_extracted = (vals.required_skills[1][2] # <<>>)]

\* UPDATE job_openings SET company = .., .., is_extracted = TRUE WHERE id = ..
UpdateRow(row, vals) == [row EXCEPT !.ext = vals, !.is_extracted = TRUE]

\* SELECT id, raw_description FROM job_openings, without the WHERE
AllJobs(tbl) == [i \in 1..Len(tbl) |-> [id |-> i, raw_description |-> tbl[i].raw_description]]

\* SELECT id, raw_description FROM job_openings WHERE is_extracted = FALSE
PendingJobs(tbl) ==
    SelectSeq([i \in 1..Len(tbl) |-> [id |-> i, raw_description |-> tbl[i].raw_description]],
              LAMBDA j : ~tbl[j.id].is_extracted)

\* module start-up (the ollama.list() probe exits the process when the
\* backend is down) and the head of main(): the SELECT of the work list
StartExtraction(e) ==
    /\ xpc[e] = "start"
    /\ \E up \in BOOLEAN :
         IF ~up
         THEN /\ xpc' = [xpc EXCEPT ![e] = "exited"]
              /\ UNCHANGED selected
         ELSE /\ selected' = [selected EXCEPT ![e] = PendingJobs(store)]
              /\ xpc' = [xpc EXCEPT ![e] =
                           IF PendingJobs(store) = <<>> THEN "done" ELSE "extract"]
    /\ UNCHANGED <<store, xidx, faults, inTxn>>
    /\ UNCHANGED <<scraperVars, offPipeline>>

\* one iteration of the loop: extract_data, then the UPDATE and db.commit(),
\* or db.rollback() when either raises mysql.connector.Error.  The updated
\* row is locked until the commit that follows at once, so the UPDATE takes
\* effect as one step.
ExtractJob(e) ==
    /\ xpc[e] = "extract"
    /\ xidx[e] <= Len(selected[e])
    /\ \E backend \in Backends, d \in Responses :
         LET structured_data == extract_data(backend, d)
             job_id == selected[e][xidx[e]].id
         IN  IF structured_data = <<>>
             THEN \* structured_data.get on None: AttributeError, not caught by
                  \* "except mysql.connector.Error": main() dies
                  /\ xpc' = [xpc EXCEPT ![e] = "crashed"]
                  /\ UNCHANGED <<store, xidx, faults>>
             ELSE \/ /\ store' = [store EXCEPT ![job_id] =
                                     UpdateRow(@, UpdateVals(structured_data[1]))]
                     /\ xidx' = [xidx EXCEPT ![e] = @ + 1]
                     /\ UNCHANGED <<xpc, faults>>
                  \/ /\ faults < MaxFaults
                     /\ faults' = faults + 1
                     /\ xidx' = [xidx EXCEPT ![e] = @ + 1]
                     /\ UNCHANGED <<store, xpc>>
    /\ UNCHANGED <<selected, inTxn>>
    /\ UNCHANGED <<scraperVars, offPipeline>>

\* the loop is over: cursor.close(), db.close()
FinishExtraction(e) ==
    /\ xpc[e] = "extract"
    /\ xidx[e] > Len(selected[e])
    /\ xpc' = [xpc EXCEPT ![e] = "done"]
    /\ UNCHANGED <<store, selected, xidx, faults, inTxn>>
    /\ UNCHANGED <<scraperVars, offPipeline>>

(***************************************************************************)
(* The pipeline: adapters and extraction runs interleaved on the store.    *)
(***************************************************************************)
\* no resume is being parsed
ResumeIdle ==
    /\ rpc = "idle"
    /\ pdf = [readable |-> FALSE, pages |-> <<>>]
    /\ use_ollama = FALSE
    /\ ollama = [kind |-> "unreachable", skills |-> <<>>]
    /\ result = <<>>

\* the Fallback Extractor is not being called on its own
FallbackIdle ==
    /\ fbpc = "idle"
    /\ fbText = <<>>
    /\ fbOut = <<>>

\* no UPDATE, cleaning, scroll loop or link discovery is run on its own
UpdateIdle ==
    /\ upc = "idle"
    /\ uresp = NullFields
    /\ urow = GenericRow("Engineer", "u1", "d1")

CleanIdle ==
    /\ cpc = "idle"
    /\ cw = "generic"
    /\ craw = <<>>
    /\ cout = <<>>
    /\ cpassed = FALSE

LoaderIdle ==
    /\ lpc = "idle"
    /\ lw = "yc"
    /\ scroll_attempt = 0
    /\ last_height = 0
    /\ scrolls = 0
    /\ steady = TRUE
    /\ lend = "none"

DiscoveryIdle ==
    /\ dpc = "idle"
    /\ dw = "generic"
    /\ anchors = <<>>
    /\ job_links = <<>>

UnitsIdle == UpdateIdle /\ CleanIdle /\ LoaderIdle /\ DiscoveryIdle

\* the state before the adapters in S and the extraction runs in X are
\* launched; an adapter not launched is closed, a run not launched is done
PipelineInit(S, X) ==
    /\ store = <<>>
    /\ spc = [w \in Scrapers |-> IF w \in S THEN "start" ELSE "closed"]
    /\ links = [w \in Scrapers |-> <<>>]
    /\ idx = [w \in Scrapers |-> 1]
    /\ inTxn = [w \in Scrapers |-> FALSE]
    /\ lastErrno = [w \in Scrapers |-> -1]
    /\ faults = 0
    /\ xpc = [e \in Extractors |-> IF e \in X THEN "start" ELSE "done"]
    /\ selected = [e \in Extractors |-> <<>>]
    /\ xidx = [e \in Extractors |-> 1]

\* the three adapters and one extraction run
Init == PipelineInit(Scrapers, {"x1"}) /\ ResumeIdle /\ FallbackIdle /\ UnitsIdle

\* two adapters (one that rolls back, one that does not) and two extraction runs
InitTwoRuns ==
    PipelineInit({"generic", "yc"}, Extractors) /\ ResumeIdle /\ FallbackIdle /\ UnitsIdle

Next ==
    \/ \E w \in Scrapers : Discover(w)
    \/ \E w \in Scrapers : FetchFails(w)
    \/ \E w \in Scrapers : FetchRejected(w)
    \/ \E w \in Scrapers : InsertPosting(w)
    \/ \E w \in Scrapers : CloseScraper(w)
    \/ \E e \in Extractors : StartExtraction(e)
    \/ \E e \in Extractors : ExtractJob(e)
    \/ \E e \in Extractors : FinishExtraction(e)

Spec == Init /\ [][Next]_vars

SpecTwoRuns == InitTwoRuns /\ [][Next]_vars

\* two adapters, which give different texts for one url, and one extraction run
InitRescrape ==
    PipelineInit({"generic", "yc"}, {"x1"}) /\ ResumeIdle /\ FallbackIdle /\ UnitsIdle

SpecRescrape == InitRescrape /\ [][Next]_vars

(***************************************************************************)
(* Properties of the ingestion store and the writers.                      *)
(***************************************************************************)
\* the url the adapter's last INSERT was for
LastUrl(w) == links[w][idx[w] - 1].url

\* C1: whatever the interleaving of the adapters' runs, job_openings never
\* holds two rows with the same job_url.
C1_OneRowPerUrl ==
    \A i, j \in DOMAIN store : i # j => store[i].job_url # store[j].job_url

\* an adapter's INSERT was refused as a duplicate of a row another adapter
\* had committed for the same url
C1_Witness ==
    \E w \in Scrapers :
        /\ spc[w] = "scrape" /\ idx[w] > 1 /\ lastErrno[w] = ER_DUP_ENTRY
        /\ \E i \in DOMAIN store :
              /\ store[i].job_url = LastUrl(w)
              /\ store[i].search_query # NewRow(w, "Engineer", LastUrl(w), "d1").search_query

\* C2 (as claimed): an insert refused by the uniqueness constraint reports
\* success to its caller, and reports something else than a hard storage
\* failure does.
C2_DuplicateReportsSuccess ==
    (spc["generic"] = "scrape" /\ lastErrno["generic"] = ER_DUP_ENTRY)
        => /\ SaveReturn(lastErrno["generic"]) = "True"
           /\ SaveReturn(ER_DUP_ENTRY) # SaveReturn(ER_OTHER)

\* C3 (as claimed): in every adapter, after an insert failed with an error
\* other than the duplicate-key error, no transaction is left open when the
\* next record is taken up.
C3_RolledBackBeforeNextRecord ==
    \A w \in Scrapers :
        (spc[w] = "scrape" /\ lastErrno[w] \notin {-1, 0, ER_DUP_ENTRY}) => ~inTxn[w]

(***************************************************************************)
(* Properties of the extraction run.                                       *)
(***************************************************************************)
\* C4: in every state of the store a row has is_extracted = TRUE exactly when
\* its six extraction fields are written; a pending row has none of them.
C4_FlagIffFields ==
    \A i \in DOMAIN store :
        \/ store[i].is_extracted /\ \A k \in FieldKeys : store[i].ext[k] # <<>>
        \/ ~store[i].is_extracted /\ \A k \in FieldKeys : store[i].ext[k] = <<>>

\* one run's UPDATE of a row failed and was rolled back (the row is behind
\* the run's index and still pending) while another row is extracted
C4_Witness ==
    \E e \in Extractors :
        /\ \E k \in 1..(xidx[e] - 1) :
              k <= Len(selected[e]) /\ ~store[selected[e][k].id].is_extracted
        /\ \E i \in DOMAIN store : store[i].is_extracted

\* C5: once a row has is_extracted = TRUE, no step of any adapter or
\* extraction run removes the row or sets the flag back.
C5_ExtractionMonotonic ==
    [][\A i \in DOMAIN store :
          store[i].is_extracted => (i \in DOMAIN store' /\ store'[i].is_extracted)]_vars

\* an adapter scraped the url of an extracted row again and was refused
C5_Witness ==
    \E w \in Scrapers :
        /\ spc[w] = "scrape" /\ idx[w] > 1 /\ lastErrno[w] = ER_DUP_ENTRY
        /\ \E i \in DOMAIN store :
              store[i].job_url = LastUrl(w) /\ store[i].is_extracted

\* C6 (as claimed): an extraction run never dies of an unhandled exception.
C6_NoUnhandledException == \A e \in Extractors : xpc[e] # "crashed"

\* C7 (as claimed): when an extraction run has ended and no storage failure
\* happened, every posting it selected as pending is extracted.
C7_SelectedAllExtractedAtEnd ==
    \A e \in Extractors :
        (xpc[e] \in {"done", "crashed"} /\ faults = 0)
            => \A k \in DOMAIN selected[e] : store[selected[e][k].id].is_extracted

(***************************************************************************)
(* Text.  A string is a sequence of one-character strings.                 *)
(***************************************************************************)
LowerLetters == <<"a", "b", "c", "d", "e", "f", "g", "h", "i", "j", "k", "l", "m", "n", "o", "p", "q", "r", "s", "t", "u", "v", "w", "x", "y", "z">>

UpperLetters == <<"A", "B", "C", "D", "E", "F", "G", "H", "I", "J", "K", "L", "M", "N", "O", "P", "Q", "R", "S", "T", "U", "V", "W", "X", "Y", "Z">>

\* upper-case letter -> its lower-case letter, and the other way round
ToLower == [c \in {UpperLetters[i] : i \in DOMAIN UpperLetters} |->
               LowerLetters[CHOOSE i \in DOMAIN UpperLetters : UpperLetters[i] = c]]

ToUpper == [c \in {LowerLetters[i] : i \in DOMAIN LowerLetters} |->
               UpperLetters[CHOOSE i \in DOMAIN LowerLetters : LowerLetters[i] = c]]

IsLowerChar(c) == c \in DOMAIN ToUpper

IsUpperChar(c) == c \in DOMAIN ToLower

IsCased(c) == IsLowerChar(c) \/ IsUpperChar(c)

LowerChar(c) == IF IsUpperChar(c) THEN ToLower[c] ELSE c

UpperChar(c) == IF IsLowerChar(c) THEN ToUpper[c] ELSE c

\* str.lower()
Lower(s) == [i \in DOMAIN s |-> LowerChar(s[i])]

\* str.title(): a cased character is upper-cased when the one before it is
\* not cased (or there is none), lower-cased otherwise
Title(s) ==
    [i \in DOMAIN s |->
        IF i > 1 /\ IsCased(s[i - 1]) THEN LowerChar(s[i]) ELSE UpperChar(s[i])]

Whitespace == {" ", "\n", "\t"}

RECURSIVE LStrip(_)
LStrip(s) ==
    IF s # <<>> /\ Head(s) \in Whitespace THEN LStrip(Tail(s)) ELSE s

RECURSIVE RStrip(_)
RStrip(s) ==
    IF s # <<>> /\ s[Len(s)] \in Whitespace
    THEN RStrip(SubSeq(s, 1, Len(s) - 1))
    ELSE s

\* str.strip()
Strip(s) == LStrip(RStrip(s))

\* k in t
IsSubstring(k, t) ==
    \E i \in 0..(Len(t) - Len(k)) : \A j \in DOMAIN k : t[i + j] = k[j]

\* how many entries of the list equal x
Count(x, list) == Cardinality({i \in DOMAIN list : list[i] = x})

(***************************************************************************)
(* The Fallback Extractor (resume_parser.extract_skills_fallback).         *)
(***************************************************************************)
common_tech ==
    <<<<"p", "y", "t", "h", "o", "n">>,
     <<"j", "a", "v", "a">>,
     <<"c", "+", "+">>,
     <<"g", "o">>,
     <<"g", "o", "l", "a", "n", "g">>,
     <<"r", "u", "s", "t">>,
     <<"j", "a", "v", "a", "s", "c", "r", "i", "p", "t">>,
     <<"t", "y", "p", "e", "s", "c", "r", "i", "p", "t">>,
     <<"n", "o", "d", "e", ".", "j", "s">>,
     <<"c", "#">>,
     <<"r", "u", "b", "y">>,
     <<"p", "h", "p">>,
     <<"s", "w", "i", "f", "t">>,
     <<"k", "o", "t", "l", "i", "n">>,
     <<"s", "c", "a", "l", "a">>,
     <<"d", "a", "t", "a", " ", "s", "t", "r", "u", "c", "t", "u", "r", "e", "s">>,
     <<"a", "l", "g", "o", "r", "i", "t", "h", "m", "s">>,
     <<"b", "i", "g", " ", "o">>,
     <<"d", "y", "n", "a", "m", "i", "c", " ", "p", "r", "o", "g", "r", "a", "m", "m", "i", "n", "g">>,
     <<"d", "j", "a", "n", "g", "o">>,
     <<"f", "l", "a", "s", "k">>,
     <<"f", "a", "s", "t", "a", "p", "i">>,
     <<"s", "p", "r", "i", "n", "g", " ", "b", "o", "o", "t">>,
     <<"e", "x", "p", "r", "e", "s", "s", ".", "j", "s">>,
     <<"n", "e", "s", "t", ".", "j", "s">>,
     <<"r", "e", "a", "c", "t">>,
     <<"v", "u", "e">>,
     <<"a", "n", "g", "u", "l", "a", "r">>,
     <<"s", "v", "e", "l", "t", "e">>,
     <<"n", "e", "x", "t", ".", "j", "s">>,
     <<"n", "u", "x", "t", ".", "j", "s">>,
     <<"r", "e", "s", "t", " ", "a", "p", "i">>,
     <<"g", "r", "a", "p", "h", "q", "l">>,
     <<"g", "r", "p", "c">>,
     <<"w", "e", "b", "s", "o", "c", "k", "e", "t", "s">>,
     <<"p", "o", "s", "t", "g", "r", "e", "s", "q", "l">>,
     <<"m", "y", "s", "q", "l">>,
     <<"m", "o", "n", "g", "o", "d", "b">>,
     <<"r", "e", "d", "i", "s">>,
     <<"c", "a", "s", "s", "a", "n", "d", "r", "a">>,
     <<"d", "y", "n", "a", "m", "o", "d", "b">>,
     <<"e", "l", "a", "s", "t", "i", "c", "s", "e", "a", "r", "c", "h">>,
     <<"n", "e", "o", "4", "j">>,
     <<"s", "q", "l", "i", "t", "e">>,
     <<"a", "w", "s">>,
     <<"g", "c", "p">>,
     <<"a", "z", "u", "r", "e">>,
     <<"e", "c", "2">>,
     <<"l", "a", "m", "b", "d", "a">>,
     <<"s", "3">>,
     <<"k", "u", "b", "e", "r", "n", "e", "t", "e", "s">>,
     <<"d", "o", "c", "k", "e", "r">>,
     <<"g", "i", "t">>,
     <<"j", "e", "n", "k", "i", "n", "s">>,
     <<"g", "i", "t", "l", "a", "b", " ", "c", "i">>,
     <<"g", "i", "t", "h", "u", "b", " ", "a", "c", "t", "i", "o", "n", "s">>,
     <<"t", "e", "r", "r", "a", "f", "o", "r", "m">>,
     <<"a", "n", "s", "i", "b", "l", "e">>,
     <<"p", "y", "t", "e", "s", "t">>,
     <<"j", "e", "s", "t">>,
     <<"s", "e", "l", "e", "n", "i", "u", "m">>,
     <<"c", "y", "p", "r", "e", "s", "s">>,
     <<"p", "o", "s", "t", "m", "a", "n">>,
     <<"m", "a", "c", "h", "i", "n", "e", " ", "l", "e", "a", "r", "n", "i", "n", "g">>,
     <<"d", "e", "e", "p", " ", "l", "e", "a", "r", "n", "i", "n", "g">>,
     <<"t", "e", "n", "s", "o", "r", "f", "l", "o", "w">>,
     <<"p", "y", "t", "o", "r", "c", "h">>,
     <<"s", "c", "i", "k", "i", "t", "-", "l", "e", "a", "r", "n">>,
     <<"n", "l", "p">>,
     <<"c", "o", "m", "p", "u", "t", "e", "r", " ", "v", "i", "s", "i", "o", "n">>,
     <<"l", "a", "n", "g", "c", "h", "a", "i", "n">>,
     <<"h", "u", "g", "g", "i", "n", "g", "f", "a", "c", "e">>,
     <<"k", "a", "f", "k", "a">>,
     <<"a", "i", "r", "f", "l", "o", "w">>,
     <<"s", "p", "a", "r", "k">>,
     <<"h", "a", "d", "o", "o", "p">>,
     <<"e", "t", "l">>,
     <<"l", "i", "n", "u", "x">>,
     <<"b", "a", "s", "h">>,
     <<"a", "g", "i", "l", "e">>,
     <<"s", "c", "r", "u", "m">>,
     <<"o", "a", "u", "t", "h">>,
     <<"j", "w", "t">>,
     <<"m", "i", "c", "r", "o", "s", "e", "r", "v", "i", "c", "e", "s">>>>

\* the text the keywords are looked up in, not lower-cased
resume_not_lowered(resume_text) == resume_text

\* resume_lower = resume_text.lower()
resume_lower(resume_text) == Lower(resume_text)

\* found_skills: the title-cased keywords found, in taxonomy order
found_skills(resume_text) ==
    LET low == resume_lower(resume_text)
        hit == SelectSeq(common_tech, LAMBDA skill : IsSubstring(skill, low))
    IN  [i \in DOMAIN hit |-> Title(hit[i])]

\* "Remove duplicates while preserving order": keeps the first of the
\* entries that are equal when lower-cased
RECURSIVE DedupLower(_, _)
DedupLower(list, seen) ==
    IF list = <<>> THEN <<>>
    ELSE IF Lower(Head(list)) \in seen
         THEN DedupLower(Tail(list), seen)
         ELSE <<Head(list)>> \o DedupLower(Tail(list), seen \cup {Lower(Head(list))})

extract_skills_fallback(resume_text) == DedupLower(found_skills(resume_text), {})

(***************************************************************************)
(* The Fallback Extractor called on its own: on every short text over a    *)
(* small alphabet and on a text for each keyword of the taxonomy.          *)
(***************************************************************************)
\* longest text given to the Fallback Extractor
MaxTextLen == 4

FallbackAlphabet == {"g", "o", "G", "s", "3"}

\* every keyword of the taxonomy occurring twice, title-cased and as it is
KeywordTexts ==
    {Title(common_tech[i]) \o <<" ">> \o common_tech[i] : i \in DOMAIN common_tech}

FallbackTexts ==
    KeywordTexts \cup UNION {[1..n -> FallbackAlphabet] : n \in 0..MaxTextLen}

InitFallback ==
    /\ PipelineInit({}, {})
    /\ ResumeIdle
    /\ UnitsIdle
    /\ fbpc = "call"
    /\ fbText \in FallbackTexts
    /\ fbOut = <<>>

CallFallback ==
    /\ fbpc = "call"
    /\ fbOut' = extract_skills_fallback(fbText)
    /\ fbpc' = "done"
    /\ UNCHANGED <<fbText, pipelineVars, resumeVars, unitVars>>

NextFallback == CallFallback

SpecFallback == InitFallback /\ [][NextFallback]_vars

\* C10: for every text and every taxonomy keyword that occurs in the
\* lower-cased text, the output holds the keyword's title-cased form exactly
\* once, however often the keyword occurs.
C10_KeywordOnce ==
    fbpc = "done" =>
        \A i \in DOMAIN common_tech :
            IsSubstring(common_tech[i], Lower(fbText))
                => Count(Title(common_tech[i]), fbOut) = 1

\* the keyword "go" occurs twice, in different case, and "s3" does not occur
C10_Witness ==
    /\ fbpc = "done"
    /\ fbText = <<"G", "o", "g", "o">>
    /\ fbOut = << <<"G", "o">> >>

(***************************************************************************)
(* The resume pipeline (resume_parser.py).                                 *)
(***************************************************************************)
\* parse_resume: minimum length of the decoded text
MIN_RESUME_LEN == 100
\* extract_skills_with_ollama: minimum length of the stripped text
MIN_OLLAMA_LEN == 50

\* pages of an uploaded document at most
MaxPages == 1
\* how far beyond MIN_RESUME_LEN the filler of a page goes
MaxOver == 1

\* n filler characters, part of no taxonomy keyword
Fill(n) == [i \in 1..n |-> "x"]

\* what a page starts with: nothing, blanks only, text with keywords
PageHeads == {<<>>, <<" ">>, <<"s", "3", " ", "G", "o", " ">>}

\* fillers that bring a page to just below, to, and beyond MIN_RESUME_LEN
FillLengths ==
    {0, MIN_RESUME_LEN - 7, MIN_RESUME_LEN - 6}
    \cup ((MIN_RESUME_LEN - 1)..(MIN_RESUME_LEN + MaxOver))

\* page.extract_text() of one page
PageTexts == {h \o Fill(n) : h \in PageHeads, n \in FillLengths}

\* a document PyPDF2 cannot read, or one with its pages' texts
Pdfs ==
    {[readable |-> FALSE, pages |-> <<>>]}
    \cup [readable : {TRUE}, pages : UNION {[1..k -> PageTexts] : k \in 0..MaxPages}]

RECURSIVE JoinPages(_)
\* text += page_text + "\n" for every page with a non-empty text
JoinPages(pages) ==
    IF pages = <<>> THEN <<>>
    ELSE (IF Head(pages) # <<>> THEN Head(pages) \o <<"\n">> ELSE <<>>)
         \o JoinPages(Tail(pages))

\* extract_text_from_pdf: the stripped text, "" when PyPDF2 raises
extract_text_from_pdf(f) ==
    IF f.readable THEN Strip(JoinPages(f.pages)) ELSE <<>>

\* the "skills" arrays a parsed response carries
SkillLists ==
    { <<>>,
      << <<" ">> >>,
      << <<"A", "W", "S">> >>,
      << <<" ", "G", "o", " ">>, <<"g", "o">>, <<"S", "3">> >> }

\* what the backend does: ollama.list()/ollama.chat() raises, the content is
\* not JSON, or a JSON object without or with a "skills" array
OllamaOutcomes ==
    {[kind |-> "unreachable", skills |-> <<>>], [kind |-> "badjson", skills |-> <<>>],
     [kind |-> "ok", skills |-> <<>>]}
    \cup {[kind |-> "ok", skills |-> <<l>>] : l \in SkillLists}

RECURSIVE CleanSkills(_, _)
\* "Remove duplicates and clean whitespace"
CleanSkills(skills, seen) ==
    IF skills = <<>> THEN <<>>
    ELSE LET skill_clean == Strip(Head(skills))
             skill_lower == Lower(skill_clean)
         IN  IF skill_lower # <<>> /\ skill_lower \notin seen
             THEN <<skill_clean>> \o CleanSkills(Tail(skills), seen \cup {skill_lower})
             ELSE CleanSkills(Tail(skills), seen)

\* an inference extractor that answers a made-up list when the backend fails
extract_skills_with_ollama_guess(resume_text, o) ==
    IF o.kind # "ok" THEN << <<"A", "W", "S">> >>
    ELSE CleanSkills(IF o.skills = <<>> THEN <<>> ELSE o.skills[1], {})

\* extract_skills_with_ollama: [] for a short text and on any exception
extract_skills_with_ollama(resume_text, o) ==
    IF resume_text = <<>> \/ Len(Strip(resume_text)) < MIN_OLLAMA_LEN THEN <<>>
    ELSE IF o.kind # "ok" THEN <<>>
    ELSE CleanSkills(IF o.skills = <<>> THEN <<>> ELSE o.skills[1], {})

\* the threshold test accepting one character less
TooShortBelow(resume_text) == Len(resume_text) < MIN_RESUME_LEN - 1

\* len(resume_text) < 100
TooShort(resume_text) == Len(resume_text) < MIN_RESUME_LEN

\* the diagnostics, by the line that builds them; n is the number of skills
MsgPdfFailed == [kind |-> "pdf_failed", n |-> 0]
MsgTooShort == [kind |-> "too_short", n |-> 0]
MsgAI(n) == [kind |-> "ai", n |-> n]
MsgFallback(n) == [kind |-> "ollama_unavailable_fallback", n |-> n]
MsgNoneFallback == [kind |-> "ollama_unavailable_none", n |-> 0]
MsgPlain(n) == [kind |-> "extracted", n |-> n]
MsgNone == [kind |-> "no_skills", n |-> 0]

\* a result that reports success whatever came of the extraction
OutcomeAlwaysOk(success, skills, message, invoked) ==
    [success |-> TRUE, skills |-> skills, message |-> message, invoked |-> invoked]

\* (success, skills, message), and which extractors were invoked on the way
Outcome(success, skills, message, invoked) ==
    [success |-> success, skills |-> skills, message |-> message, invoked |-> invoked]

parse_resume(pdf_file, use, o) ==
    LET resume_text == extract_text_from_pdf(pdf_file)
        ai == extract_skills_with_ollama(resume_text, o)
        fb == extract_skills_fallback(resume_text)
    IN  IF resume_text = <<>> THEN Outcome(FALSE, <<>>, MsgPdfFailed, {})
        ELSE IF TooShort(resume_text) THEN Outcome(FALSE, <<>>, MsgTooShort, {})
        ELSE IF use
             THEN IF ai # <<>>
                  THEN Outcome(TRUE, ai, MsgAI(Len(ai)), {"ollama"})
                  ELSE IF fb # <<>>
                       THEN Outcome(TRUE, fb, MsgFallback(Len(fb)), {"ollama", "fallback"})
                       ELSE Outcome(FALSE, <<>>, MsgNoneFallback, {"ollama", "fallback"})
             ELSE IF fb # <<>>
                  THEN Outcome(TRUE, fb, MsgPlain(Len(fb)), {"fallback"})
                  ELSE Outcome(FALSE, <<>>, MsgNone, {"fallback"})

InitResume ==
    /\ PipelineInit({}, {})
    /\ FallbackIdle
    /\ UnitsIdle
    /\ rpc = "call"
    /\ pdf \in Pdfs
    /\ use_ollama \in BOOLEAN
    /\ ollama \in OllamaOutcomes
    /\ result = <<>>

ParseResume ==
    /\ rpc = "call"
    /\ result' = <<parse_resume(pdf, use_ollama, ollama)>>
    /\ rpc' = "done"
    /\ UNCHANGED <<pdf, use_ollama, ollama, pipelineVars, fallbackVars, unitVars>>

NextResume == ParseResume

SpecResume == InitResume /\ [][NextResume]_vars

\* the decoded text of the request and the parts of what was returned
ResumeText == extract_text_from_pdf(pdf)
Returned == result[1]

\* C8 (as claimed): for an accepted text and an unreachable backend the
\* returned skills are the Fallback Extractor's output and the diagnostic
\* tells of the fallback (or of no skills found); the "using AI" diagnostic
\* is given only for skills that came from the inference extractor.
C8_UnreachableTellsFallback ==
    (rpc = "done" /\ Len(ResumeText) >= MIN_RESUME_LEN) =>
        /\ ollama.kind = "unreachable" =>
              /\ Returned.skills = extract_skills_fallback(ResumeText)
              /\ Returned.message.kind \in
                    {"ollama_unavailable_fallback", "ollama_unavailable_none", "no_skills"}
        /\ Returned.message.kind = "ai" =>
              /\ ollama.kind = "ok" /\ ollama.skills # <<>>
              /\ Returned.skills = CleanSkills(ollama.skills[1], {})

\* C8 (amended): as above, but the diagnostic tells of the fallback only when
\* use_ollama was set; without use_ollama it is the plain "Extracted N
\* skills" or "No technical skills found".
C8_UnreachableTellsFallbackIfUsed ==
    (rpc = "done" /\ Len(ResumeText) >= MIN_RESUME_LEN) =>
        /\ ollama.kind = "unreachable" =>
              /\ Returned.skills = extract_skills_fallback(ResumeText)
              /\ use_ollama => Returned.message.kind \in
                    {"ollama_unavailable_fallback", "ollama_unavailable_none"}
              /\ ~use_ollama => Returned.message.kind \in {"extracted", "no_skills"}
        /\ Returned.message.kind = "ai" =>
              /\ use_ollama
              /\ ollama.kind = "ok" /\ ollama.skills # <<>>
              /\ Returned.skills = CleanSkills(ollama.skills[1], {})
              /\ Returned.skills # <<>>

\* an accepted text with keywords, the backend unreachable, use_ollama set:
\* the fallback's skills came back under the fallback diagnostic
C8_Witness ==
    /\ rpc = "done" /\ use_ollama /\ ollama.kind = "unreachable"
    /\ Len(ResumeText) >= MIN_RESUME_LEN
    /\ Returned.skills = << <<"G", "o">>, <<"S", "3">> >>
    /\ Returned.message = MsgFallback(2)

\* C9 (as claimed): the text decoded from a readable document, when shorter
\* than 100, is refused as too short without either extractor being invoked;
\* one of length 100 or more is accepted and given to extraction.
C9_LengthBoundary ==
    (rpc = "done" /\ pdf.readable) =>
        /\ Len(ResumeText) < MIN_RESUME_LEN =>
              Returned.message.kind = "too_short" /\ Returned.invoked = {}
        /\ Len(ResumeText) >= MIN_RESUME_LEN =>
              /\ Returned.invoked # {}
              /\ Returned.message.kind \notin {"too_short", "pdf_failed"}

\* C9 (amended): the same for the non-empty texts; the empty text is refused
\* as a failed PDF extraction, also without either extractor being invoked.
C9_LengthBoundaryNonEmpty ==
    (rpc = "done" /\ pdf.readable) =>
        /\ (ResumeText # <<>> /\ Len(ResumeText) < MIN_RESUME_LEN) =>
              Returned.message.kind = "too_short" /\ Returned.invoked = {}
        /\ ResumeText = <<>> =>
              Returned.message.kind = "pdf_failed" /\ Returned.invoked = {}
        /\ Len(ResumeText) >= MIN_RESUME_LEN =>
              /\ Returned.invoked # {}
              /\ Returned.message.kind \notin {"too_short", "pdf_failed"}

\* a text of 99 characters that holds a keyword was refused as too short
C9_Witness ==
    /\ rpc = "done"
    /\ Len(ResumeText) = MIN_RESUME_LEN - 1
    /\ extract_skills_fallback(ResumeText) # <<>>
    /\ Returned = Outcome(FALSE, <<>>, MsgTooShort, {})

(***************************************************************************)
(* One UPDATE of the extraction loop (extractor.py, main) on its own, for  *)
(* every response whose keys are each missing or present.                  *)
(***************************************************************************)
\* the values a key of the response is present with
PresentValues ==
    [company          |-> {"TechCorp"},
     location_scraped |-> {"Remote"},
     is_remote        |-> {TRUE, FALSE},
     job_type         |-> {"Contract"},
     seniority        |-> {"Senior"},
     required_skills  |-> {<<>>,
                           << <<"A", "W", "S">>, <<"D", "o", "c", "k", "e", "r">> >>,
                           << <<"A", "W", "S">>, <<"D", "o", "c", "k", "e", "r">>,
                              <<"a", "w", "s">> >>}]

\* a key is missing (<<>>) or present with one of its values (<<v>>)
Optional(k) == {<<>>} \cup {<<v>> : v \in PresentValues[k]}

\* the dicts json.loads can give
AllResponses ==
    [company : Optional("company"), location_scraped : Optional("location_scraped"),
     is_remote : Optional("is_remote"), job_type : Optional("job_type"),
     seniority : Optional("seniority"), required_skills : Optional("required_skills")]

InitUpdate ==
    /\ PipelineInit({}, {})
    /\ ResumeIdle
    /\ FallbackIdle
    /\ CleanIdle /\ LoaderIdle /\ DiscoveryIdle
    /\ upc = "call"
    /\ uresp \in AllResponses
    /\ urow = TaggedRow("YC Scraper", "Engineer", "u1", "d1")

\* lines 136-165 for a response that is a dict: vals, the UPDATE, the commit
UpdatePosting ==
    /\ upc = "call"
    /\ urow' = UpdateRow(urow, UpdateVals(uresp))
    /\ upc' = "done"
    /\ UNCHANGED <<uresp, pipelineVars, resumeVars, fallbackVars,
                   cleanVars, loaderVars, discoveryVars>>

NextUpdate == UpdatePosting

SpecUpdate == InitUpdate /\ [][NextUpdate]_vars

\* the list a stored required_skills value encodes
StoredSkills == urow.ext.required_skills[1][2]

\* no two entries of the list are equal when lower-cased
NoCaseDup(list) ==
    \A i, j \in DOMAIN list : i # j => Lower(list[i]) # Lower(list[j])

\* C11 (as claimed, for the extraction run): the required_skills stored for
\* a posting hold no two entries that are equal under case-insensitive
\* comparison.
C11_StoredSkillsNoCaseDup ==
    upc = "done" => NoCaseDup(StoredSkills)

\* the documented defaults, as the stored columns hold them
StoredDefaults ==
    [company |-> "Not specified", location_scraped |-> "Not specified",
     is_remote |-> 0, job_type |-> "Full-time", seniority |-> "Not specified",
     required_skills |-> JsonDumps(<<>>)]

\* how a value present in the response is stored: a boolean as 1 or 0, the
\* skills list as its JSON text, a string as it is
StoredForm(k, v) ==
    CASE k = "is_remote"       -> (IF v THEN 1 ELSE 0)
      [] k = "required_skills" -> JsonDumps(v)
      [] OTHER                 -> v

\* C15: after the UPDATE every extraction column holds the value present in
\* the response when the key is present and the documented default only
\* when the key is missing; the posting is flagged as extracted.
C15_DefaultsOnlyWhenMissing ==
    upc = "done" =>
        /\ urow.is_extracted
        /\ \A k \in FieldKeys :
              /\ uresp[k] # <<>> => urow.ext[k] = <<StoredForm(k, uresp[k][1])>>
              /\ uresp[k] = <<>> => urow.ext[k] = <<StoredDefaults[k]>>

\* a response with every key present, no value being the default, was stored
C15_Witness ==
    /\ upc = "done"
    /\ \A k \in FieldKeys : uresp[k] # <<>>
    /\ uresp.is_remote = <<TRUE>> /\ uresp.required_skills[1] # <<>>
    /\ urow.ext.company = <<"TechCorp">>
    /\ urow.ext.location_scraped = <<"Remote">>
    /\ urow.ext.is_remote = <<1>>
    /\ urow.ext.job_type = <<"Contract">>
    /\ urow.ext.seniority = <<"Senior">>
    /\ StoredSkills = uresp.required_skills[1]

(***************************************************************************)
(* Text cleaning of the three adapters.                                    *)
(***************************************************************************)
\* clean_yc_text: noise_patterns.  A character outside ASCII is written as
\* the name of its code point: "U+203A" and "U+25E6" are one character each.
noise_patterns ==
    << <<"M", "e", "n", "u", " ", "W", "o", "r", "k", " ", "a", "t", " ", "a",
         " ", "S", "t", "a", "r", "t", "u", "p">>,
       <<"S", "t", "a", "r", "t", "u", "p", " ", "J", "o", "b", "s", " ", "I",
         "n", "t", "e", "r", "n", "s", "h", "i", "p", "s", " ", "U", "p", "c",
         "o", "m", "i", "n", "g", " ", "E", "v", "e", "n", "t", "s", " ", "H",
         "o", "w", " ", "i", "t", " ", "W", "o", "r", "k", "s", " ", "L", "o",
         "g", " ", "I", "n">>,
       <<"U+203A", " ", "W", "o", "r", "k", " ", "a", "t", " ", "a", " ", "S", "t",
         "a", "r", "t", "u", "p">>,
       <<"S", "o", "f", "t", "w", "a", "r", "e", " ", "E", "n", "g", "i", "n",
         "e", "e", "r", " ", "j", "o", "b", "s", " ", "a", "t", " ", "Y", " ",
         "C", "o", "m", "b", "i", "n", "a", "t", "o", "r", " ", "s", "t", "a",
         "r", "t", "u", "p", "s">>,
       <<"F", "i", "n", "d", " ", "o", "p", "e", "n", " ", "r", "o", "l", "e",
         "s", " ", "a", "n", "d", " ", "c", "o", "n", "n", "e", "c", "t", " ",
         "w", "i", "t", "h", " ", "f", "o", "u", "n", "d", "e", "r", "s">>,
       <<"A", "b", "o", "u", "t", " ", "W", "h", "a", "t", " ", "H", "a", "p",
         "p", "e", "n", "s", " ", "a", "t", " ", "Y", "C", "?">>,
       <<"A", "p", "p", "l", "y", " ", "Y", "C", " ", "I", "n", "t", "e", "r",
         "v", "i", "e", "w", " ", "G", "u", "i", "d", "e", " ", "F", "A", "Q",
         " ", "P", "e", "o", "p", "l", "e", " ", "Y", "C", " ", "B", "l", "o",
         "g">>,
       <<"C", "o", "m", "p", "a", "n", "i", "e", "s", " ", "S", "t", "a", "r",
         "t", "u", "p", " ", "D", "i", "r", "e", "c", "t", "o", "r", "y", " ",
         "F", "o", "u", "n", "d", "e", "r", " ", "D", "i", "r", "e", "c", "t",
         "o", "r", "y", " ", "L", "a", "u", "n", "c", "h", " ", "Y", "C">>,
       <<"S", "t", "a", "r", "t", "u", "p", " ", "J", "o", "b", "s", " ", "A",
         "l", "l", " ", "J", "o", "b", "s", " ", "U+25E6", " ", "E", "n", "g", "i",
         "n", "e", "e", "r", "i", "n", "g", " ", "U+25E6", " ", "O", "p", "e", "r",
         "a", "t", "i", "o", "n", "s", " ", "U+25E6", " ", "M", "a", "r", "k", "e",
         "t", "i", "n", "g", " ", "U+25E6", " ", "S", "a", "l", "e", "s">>,
       <<"I", "n", "t", "e", "r", "n", "s", "h", "i", "p", "s", " ", "S", "t",
         "a", "r", "t", "u", "p", " ", "J", "o", "b", " ", "G", "u", "i", "d",
         "e", " ", "Y", "C", " ", "S", "t", "a", "r", "t", "u", "p", " ", "J",
         "o", "b", "s", " ", "B", "l", "o", "g">>,
       <<"J", "o", "b", "s", " ", "b", "y", " ", "r", "o", "l", "e", ":">>,
       <<"J", "o", "b", "s", " ", "b", "y", " ", "L", "o", "c", "a", "t", "i",
         "o", "n">>,
       <<"S", "i", "g", "n", " ", "u", "p", " ", "t", "o", " ", "s", "e", "e",
         " ", "m", "o", "r", "e", " ", "U+203A">> >>

\* clean_wellfound_text: site_noise
site_noise ==
    << <<"W", "e", "l", "l", "f", "o", "u", "n", "d">>,
       <<"O", "v", "e", "r", "v", "i", "e", "w">>,
       <<"J", "o", "b", "s">>,
       <<"A", "b", "o", "u", "t", " ", "u", "s">>,
       <<"R", "e", "v", "i", "e", "w", "s">>,
       <<"R", "e", "c", "o", "m", "m", "e", "n", "d", "e", "d", " ", "f", "o",
         "r", " ", "y", "o", "u">>,
       <<"A", "p", "p", "l", "y", " ", "n", "o", "w">>,
       <<"S", "a", "v", "e">>,
       <<"S", "h", "a", "r", "e">>,
       <<"R", "e", "c", "r", "u", "i", "t", "e", "r", "s", " ", "f", "r", "o",
         "m", " ", "t", "h", "i", "s", " ", "c", "o", "m", "p", "a", "n", "y">>,
       <<"B", "r", "o", "w", "s", "e", " ", "b", "y", ":">>,
       <<"H", "i", "r", "i", "n", "g", " ", "n", "o", "w">>,
       <<"L", "o", "g", "i", "n">>,
       <<"S", "i", "g", "n", " ", "U", "p">> >>

\* _scrape_job_details: noise_phrases
noise_phrases ==
    << <<"Y", "o", "u", "r", " ", "c", "h", "o", "i", "c", "e", " ", "r", "e",
         "g", "a", "r", "d", "i", "n", "g", " ", "c", "o", "o", "k", "i", "e",
         "s", " ", "o", "n", " ", "t", "h", "i", "s", " ", "s", "i", "t", "e">>,
       <<"W", "e", " ", "u", "s", "e", " ", "c", "o", "o", "k", "i", "e", "s",
         " ", "t", "o", " ", "p", "e", "r", "s", "o", "n", "a", "l", "i", "z",
         "e", " ", "c", "o", "n", "t", "e", "n", "t">> >>

\* where old occurs in s
Occurrences(s, old) ==
    {i \in 1..(Len(s) - Len(old) + 1) : \A j \in DOMAIN old : s[i + j - 1] = old[j]}

RECURSIVE Replace(_, _, _)
\* str.replace(old, new) for a non-empty old: the non-overlapping
\* occurrences found scanning from the left, in one pass
Replace(s, old, new) ==
    LET at == Occurrences(s, old)
    IN  IF at = {} THEN s
        ELSE LET first == CHOOSE i \in at : \A j \in at : i <= j
             IN  SubSeq(s, 1, first - 1) \o new
                 \o Replace(SubSeq(s, first + Len(old), Len(s)), old, new)

RECURSIVE ReplaceEach(_, _, _)
\* for pattern in patterns: text = text.replace(pattern, new)
ReplaceEach(s, patterns, new) ==
    IF patterns = <<>> THEN s
    ELSE ReplaceEach(Replace(s, Head(patterns), new), Tail(patterns), new)

\* the index of the first whitespace character of s, Len(s) + 1 if none
FirstBlank(s) ==
    LET ws == {i \in DOMAIN s : s[i] \in Whitespace}
    IN  IF ws = {} THEN Len(s) + 1 ELSE CHOOSE i \in ws : \A j \in ws : i <= j

RECURSIVE Split(_)
\* str.split(): the words between runs of whitespace
Split(s) ==
    LET t == LStrip(s)
    IN  IF t = <<>> THEN <<>>
        ELSE <<SubSeq(t, 1, FirstBlank(t) - 1)>>
             \o Split(SubSeq(t, FirstBlank(t), Len(t)))

RECURSIVE Join(_, _)
\* sep.join(words)
Join(sep, words) ==
    IF words = <<>> THEN <<>>
    ELSE IF Len(words) = 1 THEN words[1]
    ELSE words[1] \o sep \o Join(sep, Tail(words))

clean_yc_text(raw_text) ==
    Join(<<" ">>, Split(ReplaceEach(raw_text, noise_patterns, <<>>)))

clean_wellfound_text(raw_text) ==
    Join(<<" ">>, Split(ReplaceEach(raw_text, site_noise, <<" ">>)))

\* _scrape_job_details, from soup.body.get_text on: the phrases are cut out
\* and the text is stripped
scrape_job_details(job_description) ==
    Strip(ReplaceEach(job_description, noise_phrases, <<>>))

\* the adapter's noise list N and its cleaning clean(t, N)
NoiseOf(w) ==
    CASE w = "generic"   -> noise_phrases
      [] w = "wellfound" -> site_noise
      [] w = "yc"        -> noise_patterns

CleanOf(w, raw_text) ==
    CASE w = "generic"   -> scrape_job_details(raw_text)
      [] w = "wellfound" -> clean_wellfound_text(raw_text)
      [] w = "yc"        -> clean_yc_text(raw_text)

(***************************************************************************)
(* The cleaning called on its own, on raw texts built around each noise    *)
(* substring of the adapter.                                               *)
(***************************************************************************)
\* how deep into a noise substring a second copy of it is put
MaxSplit == 2

\* a description around the noise
Framed(t) == <<"G", "o", " ">> \o t \o <<" ", "d", "e", "v">>

\* the noise substring with a second copy of it after its first k characters
Nested(p, k) == SubSeq(p, 1, k) \o p \o SubSeq(p, k + 1, Len(p))

\* the noise substring with its first blank doubled, as a text node with two
\* blanks in a row gives it
Gapped(p) ==
    IF FirstBlank(p) > Len(p) THEN p
    ELSE SubSeq(p, 1, FirstBlank(p)) \o SubSeq(p, FirstBlank(p), Len(p))

\* yc_scraper.py: len(clean_text) < 200
YC_MIN_LENGTH == 200
\* wellfound_scraper.py: len(clean_text) < 500
WELLFOUND_MIN_LENGTH == 500

\* len(clean_text) < minimum
ShorterThan(clean_text, minimum) == Len(clean_text) < minimum

\* whether the adapter goes on to the INSERT with the cleaned text:
\* job_agent.py asks for a non-empty description ("if description:"), the
\* other two for a minimum length
PassedOn(w, clean_text) ==
    CASE w = "generic"   -> clean_text # <<>>
      [] w = "wellfound" -> ~ShorterThan(clean_text, WELLFOUND_MIN_LENGTH)
      [] w = "yc"        -> ~ShorterThan(clean_text, YC_MIN_LENGTH)

\* lengths just below and at the adapters' minimums, and a single character
BodyLengths ==
    {1, YC_MIN_LENGTH - 1, YC_MIN_LENGTH, WELLFOUND_MIN_LENGTH - 1, WELLFOUND_MIN_LENGTH}

\* soup.body.get_text(separator=' ', strip=True) of the detail page
RawTexts(w) ==
    LET N == NoiseOf(w)
    IN  {<<>>, <<"G", "o">>}
        \cup {Fill(n) : n \in BodyLengths}
        \cup {Framed(N[i]) : i \in DOMAIN N}
        \cup {Framed(Gapped(N[i])) : i \in DOMAIN N}
        \cup {Framed(Nested(N[i], k)) : i \in DOMAIN N, k \in 1..MaxSplit}

InitClean ==
    /\ PipelineInit({}, {})
    /\ ResumeIdle
    /\ FallbackIdle
    /\ UpdateIdle /\ LoaderIdle /\ DiscoveryIdle
    /\ cpc = "call"
    /\ cw \in Scrapers
    /\ craw \in RawTexts(cw)
    /\ cout = <<>>
    /\ cpassed = FALSE

\* the cleaning of the page text and the test of what it left
CleanText ==
    /\ cpc = "call"
    /\ cout' = CleanOf(cw, craw)
    /\ cpassed' = PassedOn(cw, CleanOf(cw, craw))
    /\ cpc' = "done"
    /\ UNCHANGED <<cw, craw, pipelineVars, resumeVars, fallbackVars,
                   updateVars, loaderVars, discoveryVars>>

NextClean == CleanText

SpecClean == InitClean /\ [][NextClean]_vars

\* C12 (as claimed): no substring of the adapter's noise list occurs in the
\* cleaned text.
C12_NoNoiseLeft ==
    cpc = "done" =>
        \A i \in DOMAIN NoiseOf(cw) : ~IsSubstring(NoiseOf(cw)[i], cout)

(***************************************************************************)
(* The incremental loader: the scroll loops of scrape_yc and               *)
(* scrape_wellfound.  One step is one iteration of the for loop; the       *)
(* heights the page reports are the environment's choice.                  *)
(***************************************************************************)
\* yc_scraper.py: MAX_SCROLLS
YC_MAX_SCROLLS == 15
\* wellfound_scraper.py: MAX_SCROLLS
WELLFOUND_MAX_SCROLLS == 20

\* the adapters that scroll (job_agent.py reads the first page only)
Loaders == {"wellfound", "yc"}

MAX_SCROLLS(w) == IF w = "yc" THEN YC_MAX_SCROLLS ELSE WELLFOUND_MAX_SCROLLS

\* heights document.body.scrollHeight can report: enough of them for a page
\* that grows on every one of WELLFOUND_MAX_SCROLLS attempts
MaxHeight == 21

Heights == 1..MaxHeight

\* a comparison of heights that never finds them equal
NeverUnchanged(new_height, old_height) == FALSE

\* new_height == last_height
Unchanged(new_height, old_height) == new_height = old_height

\* a loop that goes on asking for another iteration when range() is used up
NeverOver(w, n) == FALSE

\* range(MAX_SCROLLS) is used up
LoopOver(w, n) == n >= MAX_SCROLLS(w)

InitLoader ==
    /\ PipelineInit({}, {})
    /\ ResumeIdle
    /\ FallbackIdle
    /\ UpdateIdle /\ CleanIdle /\ DiscoveryIdle
    /\ lpc = "start"
    /\ lw \in Loaders
    /\ scroll_attempt = 0
    /\ last_height = 0
    /\ scrolls = 0
    /\ steady = TRUE
    /\ lend = "none"

\* last_height = driver.execute_script("return document.body.scrollHeight")
MeasureFirst ==
    /\ lpc = "start"
    /\ \E h \in Heights : last_height' = h
    /\ lpc' = "loop"
    /\ UNCHANGED <<lw, scroll_attempt, scrolls, steady, lend>>
    /\ UNCHANGED <<pipelineVars, resumeVars, fallbackVars,
                   updateVars, cleanVars, discoveryVars>>

\* scrape_yc, one iteration: scroll, measure, break when the height is the
\* last one
ScrollYc ==
    /\ lpc = "loop" /\ lw = "yc"
    /\ ~LoopOver(lw, scroll_attempt)
    /\ \E new_height \in Heights :
         /\ scrolls' = scrolls + 1
         /\ steady' = (steady /\ new_height = last_height)
         /\ IF Unchanged(new_height, last_height)
            THEN /\ lpc' = "done"
                 /\ lend' = "converged"
                 /\ UNCHANGED <<last_height, scroll_attempt>>
            ELSE /\ last_height' = new_height
                 /\ scroll_attempt' = scroll_attempt + 1
                 /\ UNCHANGED <<lpc, lend>>
    /\ UNCHANGED lw
    /\ UNCHANGED <<pipelineVars, resumeVars, fallbackVars,
                   updateVars, cleanVars, discoveryVars>>

\* scrape_wellfound, one iteration: scroll, measure, (click "Show more"),
\* and when the height is the last one scroll once more and measure again;
\* break when that height is the last one too
ScrollWellfound ==
    /\ lpc = "loop" /\ lw = "wellfound"
    /\ ~LoopOver(lw, scroll_attempt)
    /\ \E new_height \in Heights :
         IF Unchanged(new_height, last_height)
         THEN \E again \in Heights :
                /\ scrolls' = scrolls + 2
                /\ steady' = (steady /\ again = last_height)
                /\ IF Unchanged(again, last_height)
                   THEN /\ lpc' = "done"
                        /\ lend' = "confirmed"
                        /\ UNCHANGED <<last_height, scroll_attempt>>
                   ELSE /\ last_height' = new_height
                        /\ scroll_attempt' = scroll_attempt + 1
                        /\ UNCHANGED <<lpc, lend>>
         ELSE /\ scrolls' = scrolls + 1
              /\ steady' = (steady /\ new_height = last_height)
              /\ last_height' = new_height
              /\ scroll_attempt' = scroll_attempt + 1
              /\ UNCHANGED <<lpc, lend>>
    /\ UNCHANGED lw
    /\ UNCHANGED <<pipelineVars, resumeVars, fallbackVars,
                   updateVars, cleanVars, discoveryVars>>

\* the for loop ends without a break
LoaderExhausted ==
    /\ lpc = "loop"
    /\ LoopOver(lw, scroll_attempt)
    /\ lpc' = "done"
    /\ lend' = "budget"
    /\ UNCHANGED <<lw, scroll_attempt, last_height, scrolls, steady>>
    /\ UNCHANGED <<pipelineVars, resumeVars, fallbackVars,
                   updateVars, cleanVars, discoveryVars>>

NextLoader == MeasureFirst \/ ScrollYc \/ ScrollWellfound \/ LoaderExhausted

SpecLoader == InitLoader /\ [][NextLoader]_vars

\* the script runs on: a statement that can be executed is executed
SpecLoaderRuns == SpecLoader /\ WF_vars(NextLoader)

\* C13: the loader always terminates, and never makes more iterations than
\* MAX_SCROLLS, whatever heights the page reports.
C13_LoaderTerminates ==
    /\ [](scroll_attempt <= MAX_SCROLLS(lw))
    /\ <>(lpc = "done")

\* the page's height was different at every measurement of the Wellfound
\* loop, and the loop ended with its budget used up
C13_Witness ==
    /\ lpc = "done" /\ lend = "budget" /\ lw = "wellfound"
    /\ scroll_attempt = WELLFOUND_MAX_SCROLLS /\ scrolls = WELLFOUND_MAX_SCROLLS
    /\ ~steady

\* C14: when the height never changes, the loader declares convergence in
\* its first iteration, after at most 2 scrolls (one, and in the Wellfound
\* loop one to confirm), whatever is left of MAX_SCROLLS.
C14_SteadyConvergesInTwo ==
    (lpc = "done" /\ steady) =>
        /\ lend \in {"converged", "confirmed"}
        /\ scrolls <= 2
        /\ scroll_attempt = 0

\* the Wellfound loop on a page of constant height: ended after 2 scrolls
C14_Witness ==
    /\ lpc = "done" /\ steady /\ lw = "wellfound"
    /\ scrolls = 2 /\ lend = "confirmed"

\* C17 (as claimed): the loading ends by convergence only after a
\* confirmatory attempt found the height still unchanged.
C17_ConvergenceConfirmed ==
    (lpc = "done" /\ lend # "budget") => lend = "confirmed"

(***************************************************************************)
(* Postings once ingested.                                                 *)
(***************************************************************************)
\* C16: no step of an adapter or of an extraction run deletes a row or
\* changes the url, the title or the raw text a row was inserted with.
C16_PostingsImmutable ==
    [][/\ Len(store') >= Len(store)
       /\ \A i \in DOMAIN store :
            /\ store'[i].job_url = store[i].job_url
            /\ store'[i].job_title = store[i].job_title
            /\ store'[i].raw_description = store[i].raw_description]_vars

\* a posting was extracted, and an adapter's insert of the same url with
\* another text was refused as a duplicate
C16_Witness ==
    \E w \in Scrapers :
        /\ spc[w] = "scrape" /\ idx[w] > 1 /\ lastErrno[w] = ER_DUP_ENTRY
        /\ \E i \in DOMAIN store :
              /\ store[i].job_url = LastUrl(w)
              /\ store[i].raw_description \notin TextsOf(w)
              /\ store[i].is_extracted

(***************************************************************************)
(* Failures on one link.                                                   *)
(***************************************************************************)
\* C18 (as claimed): a failure to fetch the detail page of a link is not
\* fatal to the run: an adapter's run leaves its loop over the links only
\* when no link is left to process.
C18_FetchFailureNotFatal ==
    [][\A w \in Scrapers :
         (spc[w] = "scrape" /\ spc'[w] # "scrape") => idx[w] > Len(links[w])]_vars

(***************************************************************************)
(* Link discovery of the three adapters.  An anchor is [href, title]: the  *)
(* href attribute and the text of an <a> element of the listing page.      *)
(***************************************************************************)
\* scrape_yc: target_roles
yc_target_roles ==
    << <<"e", "n", "g", "i", "n", "e", "e", "r">>,
       <<"d", "e", "v", "e", "l", "o", "p", "e", "r">>,
       <<"b", "a", "c", "k", "e", "n", "d">>,
       <<"f", "r", "o", "n", "t", "e", "n", "d">>,
       <<"f", "u", "l", "l", " ", "s", "t", "a", "c", "k">>,
       <<"p", "y", "t", "h", "o", "n">>,
       <<"a", "i">>,
       <<"m", "a", "c", "h", "i", "n", "e", " ", "l", "e", "a", "r", "n",
         "i", "n", "g">>,
       <<"d", "a", "t", "a">> >>

\* scrape_yc: exclude_roles
exclude_roles ==
    << <<"s", "a", "l", "e", "s">>,
       <<"m", "a", "r", "k", "e", "t", "i", "n", "g">>,
       <<"a", "c", "c", "o", "u", "n", "t", " ", "e", "x", "e", "c", "u",
         "t", "i", "v", "e">>,
       <<"r", "e", "c", "r", "u", "i", "t", "e", "r">>,
       <<"d", "e", "s", "i", "g", "n">>,
       <<"o", "p", "e", "r", "a", "t", "i", "o", "n", "s">>,
       <<"c", "u", "s", "t", "o", "m", "e", "r">> >>

\* scrape_wellfound: target_roles
wellfound_target_roles ==
    << <<"e", "n", "g", "i", "n", "e", "e", "r">>,
       <<"d", "e", "v", "e", "l", "o", "p", "e", "r">>,
       <<"b", "a", "c", "k", "e", "n", "d">>,
       <<"f", "r", "o", "n", "t", "e", "n", "d">>,
       <<"f", "u", "l", "l", " ", "s", "t", "a", "c", "k">>,
       <<"p", "y", "t", "h", "o", "n">>,
       <<"a", "i">>,
       <<"m", "a", "c", "h", "i", "n", "e", " ", "l", "e", "a", "r", "n",
         "i", "n", "g">>,
       <<"d", "a", "t", "a">> >>

\* the prefix scrape_yc puts before a relative href
YC_BASE ==
    <<"h", "t", "t", "p", "s", ":", "/", "/", "w", "w", "w", ".", "w",
      "o", "r", "k", "a", "t", "a", "s", "t", "a", "r", "t", "u", "p", ".",
      "c", "o", "m">>

\* the prefix scrape_wellfound puts before a relative href
WELLFOUND_BASE ==
    <<"h", "t", "t", "p", "s", ":", "/", "/", "w", "e", "l", "l", "f",
      "o", "u", "n", "d", ".", "c", "o", "m">>

\* the origin of the listing page of job_agent.py: get_attribute("href")
\* resolves a relative href against it
REMOTE_BASE ==
    <<"h", "t", "t", "p", "s", ":", "/", "/", "r", "e", "m", "o", "t",
      "e", ".", "c", "o", "m">>

\* "/jobs/"
JobsPath ==
    <<"/", "j", "o", "b", "s", "/">>

\* "jobs/all"
JobsAll ==
    <<"j", "o", "b", "s", "/", "a", "l", "l">>

\* "http"
Http ==
    <<"h", "t", "t", "p">>

\* href attributes and anchor texts of the listing pages
HrefPlain == <<"/", "j", "o", "b", "s", "/", "c", "/", "1">>
HrefQueryA == <<"/", "j", "o", "b", "s", "/", "c", "/", "1", "?", "a">>
HrefQueryB == <<"/", "j", "o", "b", "s", "/", "c", "/", "1", "?", "b">>
HrefAll == <<"/", "j", "o", "b", "s", "/", "a", "l", "l", "/", "x">>
HrefAbout == <<"/", "a", "b", "o", "u", "t">>
TitleBoth == <<" ", "S", "a", "l", "e", "s", " ", "E", "n", "g", "i", "n", "e", "e", "r">>
TitleAllowed == <<"D", "a", "t", "a", " ", "L", "e", "a", "d">>
TitleOther == <<"C", "h", "e", "f">>
TitleBlank == <<" ">>

\* s.startswith(p)
StartsWith(s, p) == Len(s) >= Len(p) /\ SubSeq(s, 1, Len(p)) = p

\* s.split('?')[0]
BeforeQuery(s) ==
    LET qs == {i \in DOMAIN s : s[i] = "?"}
    IN  IF qs = {} THEN s
        ELSE SubSeq(s, 1, (CHOOSE i \in qs : \A j \in qs : i <= j) - 1)

Digits == {"0", "1", "2", "3", "4", "5", "6", "7", "8", "9"}

\* re.search(r"\d", s)
HasDigit(s) == \E i \in DOMAIN s : s[i] \in Digits

\* s.count(c)
CountChar(s, c) == Cardinality({i \in DOMAIN s : s[i] = c})

\* any(token in s for token in tokens)
AnyIn(tokens, s) == \E i \in DOMAIN tokens : IsSubstring(tokens[i], s)

Pair(title, url) == [title |-> title, url |-> url]

\* the urls of the pairs found so far
UrlsOf(found) == {found[i].url : i \in DOMAIN found}

\* any(excluded in title_lower for excluded in exclude_roles)
Excluded(title_lower) == AnyIn(exclude_roles, title_lower)

RECURSIVE yc_job_links(_, _)
\* scrape_yc, the loop over soup.find_all('a', href=True); seen_urls is the
\* set of the urls of job_links
yc_job_links(as, found) ==
    IF as = <<>> THEN found
    ELSE LET href == Head(as).href
             full_url == IF StartsWith(href, Http) THEN href ELSE YC_BASE \o href
             url == BeforeQuery(full_url)
             title == Strip(Head(as).title)
             title_lower == Lower(title)
             keep == /\ href # <<>>
                     /\ IsSubstring(JobsPath, full_url) /\ HasDigit(full_url)
                     /\ url \notin UrlsOf(found)
                     /\ title # <<>>
                     /\ ~Excluded(title_lower)
                     /\ AnyIn(yc_target_roles, title_lower)
         IN  yc_job_links(Tail(as), IF keep THEN Append(found, Pair(title, url)) ELSE found)

RECURSIVE wellfound_job_links(_, _)
\* scrape_wellfound, the loop over soup.find_all('a', href=True);
\* processed_urls is the set of the urls of job_links
wellfound_job_links(as, found) ==
    IF as = <<>> THEN found
    ELSE LET href == Head(as).href
             full_url == IF StartsWith(href, Http) THEN href ELSE WELLFOUND_BASE \o href
             url == BeforeQuery(full_url)
             title == Strip(Head(as).title)
             title_lower == Lower(title)
             keep == /\ IsSubstring(JobsPath, href)
                     /\ url \notin UrlsOf(found)
                     /\ title # <<>>
                     /\ AnyIn(wellfound_target_roles, title_lower)
         IN  wellfound_job_links(Tail(as),
                                 IF keep THEN Append(found, Pair(title, url)) ELSE found)

\* find_elements(By.CSS_SELECTOR, "a[href^='/jobs/']")
potential_links(as) == SelectSeq(as, LAMBDA a : StartsWith(a.href, JobsPath))

RECURSIVE valid_links(_, _)
\* RemoteJobScraper._extract_job_links, the loop over potential_links;
\* seen_urls is the set of the urls of valid_links
valid_links(as, found) ==
    IF as = <<>> THEN found
    ELSE LET href == REMOTE_BASE \o Head(as).href
             title == Strip(Head(as).title)
             keep == /\ href # <<>>
                     /\ href \notin UrlsOf(found)
                     /\ CountChar(href, "/") >= 5
                     /\ ~IsSubstring(JobsAll, href)
                     /\ title # <<>>
         IN  valid_links(Tail(as), IF keep THEN Append(found, Pair(title, href)) ELSE found)

\* job_links of an adapter for the anchors of its listing page
DiscoveredLinks(w, as) ==
    CASE w = "generic"   -> valid_links(potential_links(as), <<>>)
      [] w = "wellfound" -> wellfound_job_links(as, <<>>)
      [] w = "yc"        -> yc_job_links(as, <<>>)

(***************************************************************************)
(* Link discovery called on its own, on every short listing page.          *)
(***************************************************************************)
\* anchors of a listing page at most
MaxAnchors == 2

Hrefs == {HrefPlain, HrefQueryA, HrefQueryB, HrefAll, HrefAbout}

AnchorTitles == {TitleBoth, TitleAllowed, TitleOther, TitleBlank}

Anchor == [href : Hrefs, title : AnchorTitles]

ListingPages == UNION {[1..n -> Anchor] : n \in 0..MaxAnchors}

InitDiscovery ==
    /\ PipelineInit({}, {})
    /\ ResumeIdle
    /\ FallbackIdle
    /\ UpdateIdle /\ CleanIdle /\ LoaderIdle
    /\ dpc = "call"
    /\ dw \in Scrapers
    /\ anchors \in ListingPages
    /\ job_links = <<>>

DiscoverLinks ==
    /\ dpc = "call"
    /\ job_links' = DiscoveredLinks(dw, anchors)
    /\ dpc' = "done"
    /\ UNCHANGED <<dw, anchors, pipelineVars, resumeVars, fallbackVars,
                   updateVars, cleanVars, loaderVars>>

NextDiscovery == DiscoverLinks

SpecDiscovery == InitDiscovery /\ [][NextDiscovery]_vars

\* C19 (as claimed): no two pairs an adapter returns have the same url once
\* the query string is stripped.
C19_NoTwoPairsOneUrl ==
    dpc = "done" =>
        \A i, j \in DOMAIN job_links :
            i # j => BeforeQuery(job_links[i].url) # BeforeQuery(job_links[j].url)

\* the allow-list of role tokens (the same list in scrape_yc and
\* scrape_wellfound)
AllowList == wellfound_target_roles

\* C20 (as claimed): every pair returned has a non-empty title that holds an
\* allow-list token, case-insensitively, and in the YC adapter no deny-list
\* token.
C20_TitlesAllowed ==
    dpc = "done" =>
        \A i \in DOMAIN job_links :
            /\ job_links[i].title # <<>>
            /\ AnyIn(AllowList, Lower(job_links[i].title))
            /\ dw = "yc" => ~AnyIn(exclude_roles, Lower(job_links[i].title))

(***************************************************************************)
(* What the adapters pass downstream.                                      *)
(***************************************************************************)
\* the minimum length C21 claims for each adapter; for job_agent.py, for
\* which it names no number, the least one that asks for more than a
\* non-empty text
ClaimedMinimum(w) ==
    CASE w = "generic"   -> 2
      [] w = "wellfound" -> WELLFOUND_MIN_LENGTH
      [] w = "yc"        -> YC_MIN_LENGTH

\* C21 (as claimed): a text an adapter goes on to insert has at least the
\* adapter's minimum length: 500 for Wellfound, 200 for YC, and a minimum
\* of more than one character in every adapter.
C21_MinimumLengthEnforced ==
    (cpc = "done" /\ cpassed) => Len(cout) >= ClaimedMinimum(cw)

\* C22 (as claimed): the text an adapter goes on to insert has no two
\* whitespace characters in a row, no newline, and no whitespace at either
\* end.
C22_WhitespaceCollapsed ==
    (cpc = "done" /\ cpassed) =>
        /\ \A i \in DOMAIN cout : cout[i] # "\n"
        /\ \A i \in 1..(Len(cout) - 1) :
              ~(cout[i] \in Whitespace /\ cout[i + 1] \in Whitespace)
        /\ cout # <<>> => (cout[1] \notin Whitespace /\ cout[Len(cout)] \notin Whitespace)

(***************************************************************************)
(* The result of parse_resume.                                             *)
(***************************************************************************)
\* the diagnostics of the returns with success False and with success True
FailureKinds == {"pdf_failed", "too_short", "ollama_unavailable_none", "no_skills"}
SuccessKinds == {"ai", "ollama_unavailable_fallback", "extracted"}

\* C23: on every path parse_resume returns success exactly when the
\* returned skills list is not empty; a failure carries an empty list and
\* one of the failure diagnostics, a success the diagnostic that counts its
\* skills.
C23_SuccessIffSkills ==
    rpc = "done" =>
        /\ Returned.success <=> Returned.skills # <<>>
        /\ ~Returned.success =>
              Returned.skills = <<>> /\ Returned.message.kind \in FailureKinds
        /\ Returned.success =>
              /\ Returned.message.kind \in SuccessKinds
              /\ Returned.message.n = Len(Returned.skills)

\* an accepted text without a keyword, the inference extractor giving
\* nothing: both extractors were tried and parse_resume reported failure
C23_Witness ==
    /\ rpc = "done" /\ use_ollama
    /\ Len(ResumeText) >= MIN_RESUME_LEN
    /\ Returned.invoked = {"ollama", "fallback"}
    /\ Returned = Outcome(FALSE, <<>>, MsgNoneFallback, {"ollama", "fallback"})

(***************************************************************************)
(* What an extraction run touches.                                         *)
(***************************************************************************)
\* the ids of the run's work list
SelectedIds(e) == {selected[e][k].id : k \in DOMAIN selected[e]}

\* C24: the work list of a run holds rows that were pending when it was
\* selected, each once; a step of the run changes no row but the one it is
\* at in its work list, and then goes on to the next; a storage error on
\* the UPDATE leaves every row as it was.
C24_RunTouchesOnlySelected ==
    [][\A e \in Extractors :
         /\ selected'[e] # selected[e] =>
               /\ \A k \in DOMAIN selected'[e] :
                     ~store[selected'[e][k].id].is_extracted
               /\ \A j, k \in DOMAIN selected'[e] :
                     j # k => selected'[e][j].id # selected'[e][k].id
         /\ xidx'[e] # xidx[e] =>
               /\ xidx'[e] = xidx[e] + 1
               /\ \A i \in DOMAIN store :
                     i # selected[e][xidx[e]].id => store'[i] = store[i]
               /\ faults' # faults => store' = store]_vars

\* a run has updated the row of its work list while a row inserted before
\* that one, which was extracted already when the run selected, is not in
\* its work list
C24_Witness ==
    \E e \in Extractors :
        /\ xidx[e] > 1
        /\ store[selected[e][1].id].is_extracted
        /\ \E i \in DOMAIN store :
              /\ i < selected[e][1].id
              /\ i \notin SelectedIds(e)
              /\ store[i].is_extracted

====
